---- MODULE Spec2Model ----
(***************************************************************************)
(* Host-side C bridge (src/zupervisor/dll_c_bridge.c) and the DLL ABI      *)
(* contract (src/zerver/ipc/dll_abi.h).                                    *)
(*                                                                         *)
(* The header is compiled for a target (the widths of data and function   *)
(* pointers); its two static assertions accept or reject the build.  An   *)
(* accepted build runs: the loader calls dll_bridge_call_init,            *)
(* dll_bridge_call_shutdown and dll_bridge_call_version in any order with *)
(* any arguments; a call that passes validation enters the plugin's       *)
(* exported function, which runs (featureInit may call adapter->addRoute) *)
(* and returns a value the bridge hands back.                             *)
(***************************************************************************)
EXTENDS Integers, Sequences, FiniteSets

VARIABLES
    target,        \* build target: [data |-> bytes of void*, fn |-> bytes of a function pointer]
    pc,            \* where control is: unbuilt, build_error, idle, inside a plugin function, after it, aborted
    frame,         \* the active bridge call: its operation, its two arguments, its local result/version
    callee,        \* the plugin activation the bridge made: function entered, argument received, count, progress
    routes,        \* what the router behind adapter->addRoute has registered
    adapters,      \* memory: the ServerAdapter object at each adapter address
    stdout,        \* lines printf wrote
    stderr,        \* lines fprintf(stderr, ...) wrote
    trace,         \* call/return events in the order they happened
    history,       \* one record per completed bridge call
    pluginRoutes   \* the loaded plugin's init code: the methods it registers, in order

vars == <<target, pc, frame, callee, routes, adapters, stdout, stderr, trace, history, pluginRoutes>>

----------------------------------------------------------------------------
(* Bounds *)

\* number of bridge calls the loader makes in a run over the full inputs
MaxCalls == 2

\* number of bridge calls the loader makes in a run that varies their order
MaxOrderedCalls == 3

----------------------------------------------------------------------------
(* dll_abi.h: HttpMethod *)

\* variant: PUT renumbered onto PATCH's value
HTTP_METHOD_PUT_renumbered == 1 + 2

HTTP_METHOD_GET == 0
HTTP_METHOD_POST == 1
HTTP_METHOD_PUT == 2
HTTP_METHOD_PATCH == 3
HTTP_METHOD_DELETE == 4
HTTP_METHOD_HEAD == 5
HTTP_METHOD_OPTIONS == 6

\* the enumerators of HttpMethod, in declaration order
HttpMethod == <<"GET", "POST", "PUT", "PATCH", "DELETE", "HEAD", "OPTIONS">>

\* the integer the compiler gives an enumerator
HttpMethodValue(name) ==
    CASE name = "GET" -> HTTP_METHOD_GET
      [] name = "POST" -> HTTP_METHOD_POST
      [] name = "PUT" -> HTTP_METHOD_PUT
      [] name = "PATCH" -> HTTP_METHOD_PATCH
      [] name = "DELETE" -> HTTP_METHOD_DELETE
      [] name = "HEAD" -> HTTP_METHOD_HEAD
      [] name = "OPTIONS" -> HTTP_METHOD_OPTIONS

HttpMethodNames == {HttpMethod[i] : i \in 1..Len(HttpMethod)}

----------------------------------------------------------------------------
(* dll_abi.h: ServerAdapter and its layout *)

\* the fields of ServerAdapter in declaration order; kind is "data" for void*
\* and "fn" for a function pointer
ServerAdapter == <<
    [name |-> "router",            kind |-> "data"],
    [name |-> "runtime_resources", kind |-> "data"],
    [name |-> "addRoute",          kind |-> "fn"],
    [name |-> "setStatus",         kind |-> "fn"],
    [name |-> "setHeader",         kind |-> "fn"],
    [name |-> "setBody",           kind |-> "fn"] >>

\* build targets: pointer widths in bytes
Targets == [data : {4, 8}, fn : {4, 8}]

\* sizeof and _Alignof of a pointer field on target t (a pointer is aligned to its size)
FieldSize(f, t) == IF f.kind = "data" THEN t.data ELSE t.fn
FieldAlign(f, t) == FieldSize(f, t)

AlignUp(n, a) == ((n + a - 1) \div a) * a

Max(a, b) == IF a >= b THEN a ELSE b

\* C struct layout: each field at the next offset aligned for it
RECURSIVE EndOffset(_, _, _)
EndOffset(fields, n, t) ==
    IF n = 0 THEN 0
    ELSE AlignUp(EndOffset(fields, n - 1, t), FieldAlign(fields[n], t)) + FieldSize(fields[n], t)

RECURSIVE StructAlign(_, _, _)
StructAlign(fields, n, t) ==
    IF n = 0 THEN 1
    ELSE Max(StructAlign(fields, n - 1, t), FieldAlign(fields[n], t))

FieldOffset(fields, n, t) == AlignUp(EndOffset(fields, n - 1, t), FieldAlign(fields[n], t))

AlignofServerAdapter(t) == StructAlign(ServerAdapter, Len(ServerAdapter), t)

SizeofServerAdapter(t) ==
    AlignUp(EndOffset(ServerAdapter, Len(ServerAdapter), t), AlignofServerAdapter(t))

RECURSIVE SumFieldSizes(_, _, _)
SumFieldSizes(fields, n, t) ==
    IF n = 0 THEN 0 ELSE SumFieldSizes(fields, n - 1, t) + FieldSize(fields[n], t)

\* bytes of ServerAdapter that belong to no field
PaddingServerAdapter(t) ==
    SizeofServerAdapter(t) - SumFieldSizes(ServerAdapter, Len(ServerAdapter), t)

\* the numbers the two _Static_assert lines demand
SERVER_ADAPTER_SIZE == 48
SERVER_ADAPTER_ALIGN == 8

\* variant: the header without its static assertions
StaticAssertsSkipped(t) == TRUE

\* _Static_assert(sizeof(ServerAdapter) == 48) and _Static_assert(_Alignof(ServerAdapter) == 8)
StaticAssertsHold(t) ==
    /\ SizeofServerAdapter(t) = SERVER_ADAPTER_SIZE
    /\ AlignofServerAdapter(t) = SERVER_ADAPTER_ALIGN

----------------------------------------------------------------------------
(* Pointers and memory *)

NULL == 0

\* addresses the loader resolved for the plugin's exports (two plugins loaded)
InitFnPtrs == {1, 2}
ShutdownFnPtrs == {1, 2}
VersionFnPtrs == {1, 2}

\* addresses of the ServerAdapter objects the loader built
AdapterPtrs == {1, 2}

\* the adapters as the loader populated them: opaque state pointers and the
\* runtime's four functions (one router per adapter, one set of functions)
LoaderAdapters ==
    [a \in AdapterPtrs |->
        [router |-> a, runtime_resources |-> a,
         addRoute |-> 1, setStatus |-> 1, setHeader |-> 1, setBody |-> 1]]

\* static strings of the plugins; the bridge's own literal lies elsewhere
PluginStrings == {1, 2}
UnknownLiteral == 3

\* the bytes at a string address (without the terminator)
CStr(p) ==
    CASE p = 1 -> "1.0.0"
      [] p = 2 -> "unknown"
      [] p = UnknownLiteral -> "unknown"

\* int is 32 bits wide
INT_MAX == 2147483647
INT_MIN == -INT_MAX - 1

\* what a featureInit may return
InitResults == {INT_MIN, -1, 0, 1, INT_MAX}

\* what a featureVersion may return; NULL breaks its contract but is a pointer all the same
VersionResults == PluginStrings \cup {NULL}

\* init code of the plugins under test: the methods registered, in order
PluginPrograms == {<< >>, <<"GET">>, HttpMethod}

NoFrame == [op |-> "none", fn |-> NULL, adapter |-> NULL, result |-> 0]
NoCallee == [fn |-> NULL, arg |-> NULL, count |-> 0, ip |-> 0]

----------------------------------------------------------------------------
(* The build *)

\* compiling dll_abi.h for the target: the static assertions pass or the build stops
Compile ==
    /\ pc = "unbuilt"
    /\ pc' = IF StaticAssertsHold(target) THEN "idle" ELSE "build_error"
    /\ UNCHANGED <<target, frame, callee, routes, adapters, stdout, stderr, trace, history, pluginRoutes>>

----------------------------------------------------------------------------
(* dll_c_bridge.c: the pieces of the three functions *)

\* variant: the lifecycle enforced, init refused once a shutdown has run
InitFnAbsentOrShutDown(init_fn) ==
    \/ init_fn = NULL
    \/ \E i \in 1..Len(history) : history[i].op = "shutdown" /\ history[i].invoked > 0

\* variant: the null test on init_fn left out
InitFnNeverAbsent(init_fn) == FALSE

\* if (!init_fn)
InitFnAbsent(init_fn) == init_fn = NULL

\* if (!adapter)
AdapterAbsent(adapter) == adapter = NULL

\* return -1; under if (!init_fn)
INIT_FN_NULL_RETURN == -1

\* variant: the null-adapter path reporting success
ADAPTER_NULL_RETURN_success == 1 - 1

\* return -1; under if (!adapter)
ADAPTER_NULL_RETURN == -1

\* the argument of init_fn(adapter)
InitCallArg(adapter) == adapter

\* variant: the result folded to 0 or -1
InitReturnStatus(result) == IF result = 0 THEN 0 ELSE INIT_FN_NULL_RETURN

\* return result;
InitReturnValue(result) == result

\* variant: the null test on shutdown_fn left out
ShutdownFnNeverAbsent(shutdown_fn) == FALSE

\* variant: the null test on shutdown_fn inverted
ShutdownFnAbsentInverted(shutdown_fn) == shutdown_fn # NULL

\* if (!shutdown_fn)
ShutdownFnAbsent(shutdown_fn) == shutdown_fn = NULL

\* variant: a copy of the string returned, at another address
VersionReturnCopy(version) == IF version = NULL THEN NULL ELSE version + UnknownLiteral

\* return version;
VersionReturnValue(version) == version

\* if (!version_fn)
VersionFnAbsent(version_fn) == version_fn = NULL

\* variant: the caller going on while the callee still runs
ResumesEarly(label, inside) == pc \in {label, inside}

\* the statement after a call runs when the call has returned
Resumes(label, inside) == pc = label

\* the bridge reads adapter->router and adapter->addRoute and assigns no field
AdaptersAfterInit(adapter) == adapters

\* a completed bridge call: what it was given (op, fn, adapter), what the plugin
\* saw of it (how often it was entered, which function, with which argument, what
\* it returned), what the caller got back (ret: << >> for void, <<v>> for a value)
\* and how many lines stand in the two streams
Done(f, c, plugin_ret, ret, out, err) ==
    [op |-> f.op, fn |-> f.fn, adapter |-> f.adapter,
     invoked |-> c.count, called |-> c.fn, arg |-> c.arg,
     plugin_ret |-> plugin_ret, ret |-> ret, nout |-> Len(out), nerr |-> Len(err)]

----------------------------------------------------------------------------
(* dll_bridge_call_init *)

\* entry to the call of init_fn (or to an early return)
dll_bridge_call_init(init_fn, adapter) ==
    /\ pc = "idle"
    /\ LET f == [op |-> "init", fn |-> init_fn, adapter |-> adapter, result |-> 0] IN
       IF InitFnAbsent(init_fn) THEN
           /\ stderr' = Append(stderr, <<"[dll_c_bridge] Error: init_fn is NULL">>)
           /\ history' = Append(history, Done(f, NoCallee, 0, <<INIT_FN_NULL_RETURN>>, stdout, stderr'))
           /\ trace' = trace \o << <<"enter", "init">>, <<"exit", "init">> >>
           /\ callee' = NoCallee
           /\ UNCHANGED <<pc, frame, stdout, adapters>>
       ELSE IF AdapterAbsent(adapter) THEN
           /\ stderr' = Append(stderr, <<"[dll_c_bridge] Error: adapter is NULL">>)
           /\ history' = Append(history, Done(f, NoCallee, 0, <<ADAPTER_NULL_RETURN>>, stdout, stderr'))
           /\ trace' = trace \o << <<"enter", "init">>, <<"exit", "init">> >>
           /\ callee' = NoCallee
           /\ UNCHANGED <<pc, frame, stdout, adapters>>
       ELSE
           /\ stdout' = stdout \o <<
                  <<"[dll_c_bridge] Calling featureInit through C bridge">>,
                  <<"[dll_c_bridge] adapter->router = %p", adapters[adapter].router>>,
                  <<"[dll_c_bridge] adapter->addRoute = %p", adapters[adapter].addRoute>> >>
           /\ adapters' = AdaptersAfterInit(adapter)
           /\ frame' = f
           /\ callee' = [fn |-> init_fn, arg |-> InitCallArg(adapter), count |-> callee.count + 1, ip |-> 1]
           /\ trace' = trace \o << <<"enter", "init">>, <<"invoke", "init">> >>
           /\ pc' = "featureInit"
           /\ UNCHANGED <<stderr, history>>
    /\ UNCHANGED <<target, routes, pluginRoutes>>

\* the plugin's init code registers its next route through the adapter it was given
featureInit_addRoute ==
    /\ pc = "featureInit"
    /\ callee.ip <= Len(pluginRoutes)
    /\ routes' = routes \cup {[router |-> adapters[callee.arg].router,
                               method |-> HttpMethodValue(pluginRoutes[callee.ip]),
                               name |-> pluginRoutes[callee.ip]]}
    /\ callee' = [callee EXCEPT !.ip = @ + 1]
    /\ trace' = Append(trace, <<"addRoute", "init">>)
    /\ UNCHANGED <<target, pc, frame, adapters, stdout, stderr, history, pluginRoutes>>

\* the plugin's init returns
featureInit_return(r) ==
    /\ pc = "featureInit"
    /\ callee.ip > Len(pluginRoutes)
    /\ frame' = [frame EXCEPT !.result = r]
    /\ trace' = Append(trace, <<"returned", "init">>)
    /\ pc' = "init_returned"
    /\ UNCHANGED <<target, callee, routes, adapters, stdout, stderr, history, pluginRoutes>>

\* printf of the result; return result
dll_bridge_call_init_return ==
    /\ Resumes("init_returned", "featureInit")
    /\ stdout' = Append(stdout, <<"[dll_c_bridge] featureInit returned: %d", frame.result>>)
    /\ history' = Append(history, Done(frame, callee, frame.result, <<InitReturnValue(frame.result)>>, stdout', stderr))
    /\ trace' = Append(trace, <<"exit", "init">>)
    /\ frame' = NoFrame
    /\ callee' = NoCallee
    /\ pc' = "idle"
    /\ UNCHANGED <<target, routes, adapters, stderr, pluginRoutes>>

----------------------------------------------------------------------------
(* dll_bridge_call_shutdown *)

\* entry to the call of shutdown_fn (or to the early return)
dll_bridge_call_shutdown(shutdown_fn) ==
    /\ pc = "idle"
    /\ LET f == [op |-> "shutdown", fn |-> shutdown_fn, adapter |-> NULL, result |-> 0] IN
       IF ShutdownFnAbsent(shutdown_fn) THEN
           /\ stderr' = Append(stderr, <<"[dll_c_bridge] Error: shutdown_fn is NULL">>)
           /\ history' = Append(history, Done(f, NoCallee, 0, << >>, stdout, stderr'))
           /\ trace' = trace \o << <<"enter", "shutdown">>, <<"exit", "shutdown">> >>
           /\ callee' = NoCallee
           /\ UNCHANGED <<pc, frame, stdout>>
       ELSE
           /\ stdout' = Append(stdout, <<"[dll_c_bridge] Calling featureShutdown through C bridge">>)
           /\ frame' = f
           /\ callee' = [fn |-> shutdown_fn, arg |-> NULL, count |-> callee.count + 1, ip |-> 1]
           /\ trace' = trace \o << <<"enter", "shutdown">>, <<"invoke", "shutdown">> >>
           /\ pc' = "featureShutdown"
           /\ UNCHANGED <<stderr, history>>
    /\ UNCHANGED <<target, routes, adapters, pluginRoutes>>

\* the plugin's shutdown returns (it has no value to return)
featureShutdown_return ==
    /\ pc = "featureShutdown"
    /\ trace' = Append(trace, <<"returned", "shutdown">>)
    /\ pc' = "shutdown_returned"
    /\ UNCHANGED <<target, frame, callee, routes, adapters, stdout, stderr, history, pluginRoutes>>

\* the closing brace of dll_bridge_call_shutdown
dll_bridge_call_shutdown_return ==
    /\ Resumes("shutdown_returned", "featureShutdown")
    /\ history' = Append(history, Done(frame, callee, 0, << >>, stdout, stderr))
    /\ trace' = Append(trace, <<"exit", "shutdown">>)
    /\ frame' = NoFrame
    /\ callee' = NoCallee
    /\ pc' = "idle"
    /\ UNCHANGED <<target, routes, adapters, stdout, stderr, pluginRoutes>>

----------------------------------------------------------------------------
(* dll_bridge_call_version *)

\* entry to the call of version_fn (or to the early return of the literal)
dll_bridge_call_version(version_fn) ==
    /\ pc = "idle"
    /\ LET f == [op |-> "version", fn |-> version_fn, adapter |-> NULL, result |-> 0] IN
       IF VersionFnAbsent(version_fn) THEN
           /\ stderr' = Append(stderr, <<"[dll_c_bridge] Error: version_fn is NULL">>)
           /\ history' = Append(history, Done(f, NoCallee, 0, <<UnknownLiteral>>, stdout, stderr'))
           /\ trace' = trace \o << <<"enter", "version">>, <<"exit", "version">> >>
           /\ callee' = NoCallee
           /\ UNCHANGED <<pc, frame, stdout>>
       ELSE
           /\ stdout' = Append(stdout, <<"[dll_c_bridge] Calling featureVersion through C bridge">>)
           /\ frame' = f
           /\ callee' = [fn |-> version_fn, arg |-> NULL, count |-> callee.count + 1, ip |-> 1]
           /\ trace' = trace \o << <<"enter", "version">>, <<"invoke", "version">> >>
           /\ pc' = "featureVersion"
           /\ UNCHANGED <<stderr, history>>
    /\ UNCHANGED <<target, routes, adapters, pluginRoutes>>

\* the plugin's version function returns a pointer
featureVersion_return(p) ==
    /\ pc = "featureVersion"
    /\ frame' = [frame EXCEPT !.result = p]
    /\ trace' = Append(trace, <<"returned", "version">>)
    /\ pc' = "version_returned"
    /\ UNCHANGED <<target, callee, routes, adapters, stdout, stderr, history, pluginRoutes>>

\* printf("... %s\n", version); return version;
\* a null version makes the printf undefined: the C library prints a placeholder
\* and the call goes on, or the process dies in printf
dll_bridge_call_version_return ==
    /\ Resumes("version_returned", "featureVersion")
    /\ \/ /\ frame.result # NULL
          /\ stdout' = Append(stdout, <<"[dll_c_bridge] featureVersion returned: %s", CStr(frame.result)>>)
          /\ history' = Append(history, Done(frame, callee, frame.result, <<VersionReturnValue(frame.result)>>, stdout', stderr))
          /\ trace' = Append(trace, <<"exit", "version">>)
          /\ frame' = NoFrame
          /\ callee' = NoCallee
          /\ pc' = "idle"
       \/ /\ frame.result = NULL
          /\ stdout' = Append(stdout, <<"[dll_c_bridge] featureVersion returned: %s", "(null)">>)
          /\ history' = Append(history, Done(frame, callee, frame.result, <<VersionReturnValue(frame.result)>>, stdout', stderr))
          /\ trace' = Append(trace, <<"exit", "version">>)
          /\ frame' = NoFrame
          /\ callee' = NoCallee
          /\ pc' = "idle"
       \/ /\ frame.result = NULL
          /\ pc' = "aborted"
          /\ UNCHANGED <<stdout, history, trace, frame, callee>>
    /\ UNCHANGED <<target, routes, adapters, stderr, pluginRoutes>>

----------------------------------------------------------------------------
(* The whole system *)

Init ==
    /\ target \in Targets
    /\ pluginRoutes \in PluginPrograms
    /\ pc = "unbuilt"
    /\ frame = NoFrame
    /\ callee = NoCallee
    /\ routes = {}
    /\ adapters = LoaderAdapters
    /\ stdout = << >>
    /\ stderr = << >>
    /\ trace = << >>
    /\ history = << >>

\* a step of a run in which the loader makes up to limit bridge calls, with
\* function pointers, adapters and plugin results from the given sets
Run(limit, initFns, shutdownFns, versionFns, adapterPtrs, initResults, versionResults) ==
    \/ Compile
    \/ /\ Len(history) < limit
       /\ \E init_fn \in initFns \cup {NULL}, adapter \in adapterPtrs \cup {NULL} :
              dll_bridge_call_init(init_fn, adapter)
    \/ featureInit_addRoute
    \/ \E r \in initResults : featureInit_return(r)
    \/ dll_bridge_call_init_return
    \/ /\ Len(history) < limit
       /\ \E shutdown_fn \in shutdownFns \cup {NULL} : dll_bridge_call_shutdown(shutdown_fn)
    \/ featureShutdown_return
    \/ dll_bridge_call_shutdown_return
    \/ /\ Len(history) < limit
       /\ \E version_fn \in versionFns \cup {NULL} : dll_bridge_call_version(version_fn)
    \/ \E p \in versionResults : featureVersion_return(p)
    \/ dll_bridge_call_version_return

Next ==
    Run(MaxCalls, InitFnPtrs, ShutdownFnPtrs, VersionFnPtrs, AdapterPtrs, InitResults, VersionResults)

Spec == Init /\ [][Next]_vars

\* Longer runs, to put calls in every order: a 64-bit build of a plugin that
\* registers one route and whose init succeeds (0) or fails (1)
OrderedInitResults == {0, 1}

InitOrdered ==
    /\ target = [data |-> 8, fn |-> 8]
    /\ pluginRoutes = <<"GET">>
    /\ pc = "unbuilt"
    /\ frame = NoFrame
    /\ callee = NoCallee
    /\ routes = {}
    /\ adapters = LoaderAdapters
    /\ stdout = << >>
    /\ stderr = << >>
    /\ trace = << >>
    /\ history = << >>

NextOrdered ==
    Run(MaxOrderedCalls, InitFnPtrs, ShutdownFnPtrs, VersionFnPtrs, AdapterPtrs,
        OrderedInitResults, VersionResults)

SpecOrdered == InitOrdered /\ [][NextOrdered]_vars

----------------------------------------------------------------------------
(* Reading the state *)

\* the completed calls of one bridge function
Calls(op) == {i \in 1..Len(history) : history[i].op = op}

\* lines a completed call added to a stream
OutLines(i) == history[i].nout - (IF i = 1 THEN 0 ELSE history[i - 1].nout)
ErrLines(i) == history[i].nerr - (IF i = 1 THEN 0 ELSE history[i - 1].nerr)

\* control is inside a plugin function the bridge entered, or just back from it
InPlugin == pc \in {"featureInit", "featureShutdown", "featureVersion"}
BackFromPlugin == pc \in {"init_returned", "shutdown_returned", "version_returned"}

\* events of the trace before position i whose kind is in kinds, as positions
Before(i, kinds) == {j \in 1..(i - 1) : trace[j][1] \in kinds}

\* the last event before position i whose kind is in kinds (<< >> when there is none)
LastBefore(i, kinds) ==
    IF Before(i, kinds) = {} THEN << >>
    ELSE trace[CHOOSE j \in Before(i, kinds) : \A k \in Before(i, kinds) : k <= j]

----------------------------------------------------------------------------
(* Claims *)

\* C1: dll_bridge_call_init with a present init function and a present adapter
\* enters that function exactly once, hands it the very adapter pointer it was
\* given, and returns exactly the integer the function returned.
C1_InitCallsOnceAndReturnsVerbatim ==
    /\ \A i \in Calls("init") :
           (history[i].fn # NULL /\ history[i].adapter # NULL) =>
               /\ history[i].invoked = 1
               /\ history[i].called = history[i].fn
               /\ history[i].arg = history[i].adapter
               /\ history[i].ret = <<history[i].plugin_ret>>
    /\ (pc \in {"featureInit", "init_returned"}) =>
           /\ callee.count = 1
           /\ callee.fn = frame.fn
           /\ callee.arg = frame.adapter

\* C1 witness: an init call through a present function and adapter came back with
\* the plugin's -1, the plugin entered once
C1_Witness ==
    \E i \in Calls("init") :
        /\ history[i].fn # NULL /\ history[i].adapter # NULL
        /\ history[i].invoked = 1
        /\ history[i].plugin_ret = -1
        /\ history[i].ret = <<-1>>

\* C2: dll_bridge_call_init with a NULL init function returns -1 and enters no
\* plugin function, whether the adapter is present or not.
C2_InitNullFnFails ==
    /\ \A i \in Calls("init") :
           history[i].fn = NULL =>
               /\ history[i].ret = <<-1>>
               /\ history[i].invoked = 0
    /\ (frame.op = "init" /\ (InPlugin \/ BackFromPlugin)) => frame.fn # NULL

\* C2 witness: two init calls with a NULL function were made, one with a NULL
\* adapter and one with a present adapter
C2_Witness ==
    /\ Len(history) = 2
    /\ history[1].op = "init" /\ history[1].fn = NULL /\ history[1].adapter = NULL
    /\ history[2].op = "init" /\ history[2].fn = NULL /\ history[2].adapter # NULL
    /\ history[2].ret = <<-1>>

\* C3: dll_bridge_call_init with a present init function and a NULL adapter
\* returns -1 and does not enter the init function.
C3_InitNullAdapterFails ==
    /\ \A i \in Calls("init") :
           (history[i].fn # NULL /\ history[i].adapter = NULL) =>
               /\ history[i].ret = <<-1>>
               /\ history[i].invoked = 0
    /\ (frame.op = "init" /\ (InPlugin \/ BackFromPlugin)) => frame.adapter # NULL

\* C3 witness: an init call with a present function and a NULL adapter completed
C3_Witness ==
    \E i \in Calls("init") :
        /\ history[i].fn # NULL /\ history[i].adapter = NULL
        /\ history[i].ret = <<-1>>
        /\ history[i].invoked = 0

\* C4: dll_bridge_call_shutdown with a NULL shutdown function enters no plugin
\* function, hands its caller no failure (it returns, and returns no value) and
\* writes one diagnostic line and nothing else.
C4_ShutdownNullIsNoOp ==
    /\ \A i \in Calls("shutdown") :
           history[i].fn = NULL =>
               /\ history[i].invoked = 0
               /\ history[i].ret = << >>
               /\ ErrLines(i) = 1
               /\ OutLines(i) = 0
    /\ frame.op = "shutdown" => (frame.fn # NULL /\ pc # "aborted")

\* C4 witness: a shutdown call with a NULL function completed and the loader went
\* on to make another call
C4_Witness ==
    /\ Len(history) = 2
    /\ history[1].op = "shutdown" /\ history[1].fn = NULL
    /\ history[1].invoked = 0
    /\ pc = "idle"

\* C5: dll_bridge_call_shutdown with a present shutdown function enters that
\* function exactly once and then returns, with no return value.
C5_ShutdownCallsOnce ==
    /\ \A i \in Calls("shutdown") :
           history[i].fn # NULL =>
               /\ history[i].invoked = 1
               /\ history[i].called = history[i].fn
               /\ history[i].ret = << >>
    /\ (pc \in {"featureShutdown", "shutdown_returned"}) =>
           (callee.count = 1 /\ callee.fn = frame.fn)

\* C5 witness: a shutdown call through a present function completed
C5_Witness ==
    \E i \in Calls("shutdown") :
        /\ history[i].fn # NULL
        /\ history[i].invoked = 1
        /\ pc = "idle"

\* C6: dll_bridge_call_version returns its "unknown" literal without entering
\* anything when the version function is NULL; with a present function it enters
\* it exactly once and returns the very pointer the plugin returned, so the caller
\* reads the plugin's bytes; the call fails to come back only when the plugin
\* returned NULL.
C6_VersionReturnsPluginPointer ==
    /\ \A i \in Calls("version") :
           /\ history[i].fn = NULL =>
                  /\ history[i].invoked = 0
                  /\ history[i].ret = <<UnknownLiteral>>
                  /\ CStr(history[i].ret[1]) = "unknown"
           /\ history[i].fn # NULL =>
                  /\ history[i].invoked = 1
                  /\ history[i].called = history[i].fn
                  /\ history[i].ret = <<history[i].plugin_ret>>
    /\ (pc \in {"featureVersion", "version_returned"}) =>
           (callee.count = 1 /\ callee.fn = frame.fn /\ frame.fn # NULL)
    /\ pc = "aborted" => (frame.op = "version" /\ frame.result = NULL)

\* C6 witness: a plugin whose version string has the bytes "unknown" was asked:
\* the caller got the plugin's pointer, not the bridge's literal
C6_Witness ==
    \E i \in Calls("version") :
        /\ history[i].fn # NULL
        /\ history[i].invoked = 1
        /\ history[i].ret # <<UnknownLiteral>>
        /\ history[i].ret # <<NULL>>
        /\ CStr(history[i].ret[1]) = "unknown"

\* C7: HttpMethod has exactly seven enumerators, GET=0, POST=1, PUT=2, PATCH=3,
\* DELETE=4, HEAD=5, OPTIONS=6: pairwise distinct, contiguous from 0, so that the
\* integer a plugin hands addRoute stands for one method only.
C7_HttpMethodValues ==
    /\ Len(HttpMethod) = 7
    /\ Cardinality(HttpMethodNames) = 7
    /\ \A k \in 1..Len(HttpMethod) : HttpMethodValue(HttpMethod[k]) = k - 1
    /\ \A r \in routes :
           r.method = [GET |-> 0, POST |-> 1, PUT |-> 2, PATCH |-> 3,
                       DELETE |-> 4, HEAD |-> 5, OPTIONS |-> 6][r.name]
    /\ \A r1, r2 \in routes :
           (r1.router = r2.router /\ r1.method = r2.method) => r1.name = r2.name

\* C7 witness: a plugin registered a route for each of the seven methods and the
\* router holds the integers 0..6
C7_Witness ==
    /\ pc = "idle"
    /\ {r.method : r \in routes} = 0..6
    /\ \E r \in routes : r.name = "OPTIONS" /\ r.method = 6

\* C8: ServerAdapter is six pointer-sized fields in the order router,
\* runtime_resources, addRoute, setStatus, setHeader, setBody; with 8-byte data
\* and function pointers it is 48 bytes, 8-byte aligned, without padding; a build
\* with any other size or alignment stops at the static assertions, so nothing
\* runs with another layout.
C8_ServerAdapterLayout ==
    /\ [k \in 1..Len(ServerAdapter) |-> ServerAdapter[k].name] =
           <<"router", "runtime_resources", "addRoute", "setStatus", "setHeader", "setBody">>
    /\ \A k \in 1..Len(ServerAdapter) :
           FieldSize(ServerAdapter[k], target) \in {target.data, target.fn}
    /\ (target.data = 8 /\ target.fn = 8) =>
           /\ SizeofServerAdapter(target) = 48
           /\ AlignofServerAdapter(target) = 8
           /\ PaddingServerAdapter(target) = 0
           /\ \A k \in 1..Len(ServerAdapter) : FieldOffset(ServerAdapter, k, target) = 8 * (k - 1)
           /\ pc # "build_error"
    /\ (SizeofServerAdapter(target) # 48 \/ AlignofServerAdapter(target) # 8) =>
           pc \in {"unbuilt", "build_error"}
    /\ pc = "build_error" =>
           /\ (SizeofServerAdapter(target) # 48 \/ AlignofServerAdapter(target) # 8)
           /\ history = << >> /\ trace = << >>

\* C8 witness: a build for 4-byte data pointers and 8-byte function pointers (40
\* bytes, 8-byte aligned) was stopped by the size assertion
C8_Witness ==
    /\ pc = "build_error"
    /\ target = [data |-> 4, fn |-> 8]
    /\ SizeofServerAdapter(target) = 40
    /\ AlignofServerAdapter(target) = 8

\* C9: every crossing is synchronous: a plugin function the bridge enters starts
\* after the bridge call started and has returned before the bridge call returns;
\* every addRoute call of the plugin's init lies inside dll_bridge_call_init; when
\* a bridge call has returned no plugin entry it made is still pending.
C9_CrossingsAreSynchronous ==
    /\ \A i \in 1..Len(trace) :
           LET e == trace[i]
               pending == Cardinality(Before(i, {"invoke"})) - Cardinality(Before(i, {"returned"}))
           IN  /\ e[1] = "invoke" =>
                      /\ LastBefore(i, {"enter", "exit"}) = <<"enter", e[2]>>
                      /\ pending = 0
               /\ e[1] = "returned" =>
                      /\ LastBefore(i, {"enter", "exit"}) = <<"enter", e[2]>>
                      /\ LastBefore(i, {"invoke", "returned"}) = <<"invoke", e[2]>>
               /\ e[1] = "addRoute" =>
                      /\ LastBefore(i, {"enter", "exit"}) = <<"enter", "init">>
                      /\ LastBefore(i, {"invoke", "returned"}) = <<"invoke", "init">>
               /\ e[1] = "exit" =>
                      /\ LastBefore(i, {"enter", "exit"}) = <<"enter", e[2]>>
                      /\ pending = 0
    /\ pc = "idle" =>
           Cardinality(Before(Len(trace) + 1, {"invoke"})) =
               Cardinality(Before(Len(trace) + 1, {"returned"}))
    /\ InPlugin => frame.op # "none"

\* C9 witness: an init call whose plugin registered routes has returned, and the
\* routes were all registered before it did
C9_Witness ==
    /\ pc = "idle"
    /\ Len(history) = 1
    /\ history[1].op = "init" /\ history[1].invoked = 1
    /\ Cardinality(routes) = 7
    /\ trace[Len(trace)] = <<"exit", "init">>
    /\ Cardinality(Before(Len(trace), {"addRoute"})) = 7

\* C10: the bridge keeps no state between calls and enforces no order of calls.
\* Each completed call, wherever it stands in the run, entered the plugin as often
\* as its own arguments say (once when its function, and for init its adapter, is
\* present, else not at all) and returned what its arguments and the plugin's
\* return value say; two calls of one run with the same arguments enter the
\* plugin equally often, with the same function and argument, write equally many
\* lines and, the plugin returning the same, return the same, whatever was called
\* before or in between; and the adapters stay as the loader built them.
C10_BridgeIsStateless ==
    /\ \A i \in 1..Len(history) :
           LET h == history[i]
               passes == h.fn # NULL /\ (h.op = "init" => h.adapter # NULL)
           IN  /\ h.invoked = (IF passes THEN 1 ELSE 0)
               /\ passes => h.called = h.fn
               /\ h.op = "init" =>
                      /\ passes => h.arg = h.adapter
                      /\ h.ret = (IF passes THEN <<h.plugin_ret>> ELSE <<-1>>)
               /\ h.op = "shutdown" => h.ret = << >>
               /\ h.op = "version" =>
                      h.ret = (IF passes THEN <<h.plugin_ret>> ELSE <<UnknownLiteral>>)
    /\ \A i, j \in 1..Len(history) :
           (/\ history[i].op = history[j].op
            /\ history[i].fn = history[j].fn
            /\ history[i].adapter = history[j].adapter) =>
               /\ history[i].invoked = history[j].invoked
               /\ history[i].called = history[j].called
               /\ history[i].arg = history[j].arg
               /\ OutLines(i) = OutLines(j)
               /\ ErrLines(i) = ErrLines(j)
               /\ history[i].plugin_ret = history[j].plugin_ret =>
                      history[i].ret = history[j].ret
    /\ adapters = LoaderAdapters

\* C10 witness: a run out of lifecycle order: a version call before any init, then
\* a shutdown of a plugin never initialised, then an init through a present
\* function and adapter; each entered the plugin once
C10_Witness ==
    /\ Len(history) = 3
    /\ history[1].op = "version" /\ history[1].fn # NULL /\ history[1].invoked = 1
    /\ history[1].ret = <<history[1].plugin_ret>>
    /\ history[2].op = "shutdown" /\ history[2].fn # NULL /\ history[2].invoked = 1
    /\ history[3].op = "init" /\ history[3].fn # NULL /\ history[3].adapter # NULL
    /\ history[3].invoked = 1 /\ history[3].ret = <<0>>

====
